---- MODULE Spec2Model ----
(***************************************************************************)
(* Model of the HR Bot auth API (backend/app/api/auth.py and its           *)
(* collaborators): the first-login flag service, the OTP lifecycle         *)
(* (send-otp / verify-otp) and the Clerk provisioning webhook.             *)
(*                                                                         *)
(* The hosted store is modelled as two tables.  A store call either takes  *)
(* effect and returns, or raises without effect.  Rows of password_resets  *)
(* are kept in insertion order; the surrogate id of a row is its index.    *)
(* A select without ORDER BY may return its rows in any order, so          *)
(* result.data[0] is any row of the result.                                *)
(* employees is keyed by clerk_id (one row per identity).                  *)
(* Time is counted in minutes.                                             *)
(***************************************************************************)
EXTENDS Integers, Sequences, FiniteSets, TLC

\* ------------------------------------------------------------------ bounds
MaxRows == 2
MaxRaceRows == 1
MaxTime == 15
TickMinutes == 5

\* ------------------------------------------------------- program constants
OTP_TTL_MINUTES == 10

UserIds == {"u1", "u2", "u3"}
Emails == {"a@x", "b@x"}
Otps == {"000000", "000001"}
Procs == {1, 2}

VARIABLES
    employees,        \* table employees: clerk_id -> first_login, for the rows present
    loginLast,        \* the last first-login / webhook request and its response
    password_resets,  \* table password_resets: sequence of rows, id = index
    outbox,           \* the calls of send_otp_email, as (email, otp), in order
    now,              \* the UTC clock, minutes
    sendgridKey,      \* settings.SENDGRID_API_KEY is set
    otpLast,          \* the last send-otp / verify-otp request (sequential runs)
    redeemed,         \* ids of the rows verify-otp requests succeeded on, in order
    proc              \* verify-otp requests in flight (concurrent runs)

vars == <<employees, loginLast, password_resets, outbox, now, sendgridKey,
          otpLast, redeemed, proc>>

loginVars == <<employees, loginLast>>
otpVars == <<password_resets, outbox, now, sendgridKey, otpLast, redeemed>>

\* --------------------------------------------------- handler outcomes
Return(body) == [kind |-> "return", status |-> 200, detail |-> body]

HTTPException(status_code, detail) ==
    [kind |-> "HTTPException", status |-> status_code, detail |-> detail]

Exception(what) == [kind |-> "Exception", status |-> 0, detail |-> what]

JsonBool(b) == IF b THEN "true" ELSE "false"

\* ------------------------------------------------- first-login service
\* .select('first_login').eq('clerk_id', userId).single(): the row's value, or no data
SelectFirstLogin(table, userId) ==
    IF userId \in DOMAIN table THEN {table[userId]} ELSE {}

\* .update({'first_login': v}).eq('clerk_id', userId): the table and the updated rows
UpdateFirstLogin(table, userId, v) ==
    IF userId \in DOMAIN table
    THEN [table |-> [table EXCEPT ![userId] = v], data |-> {userId}]
    ELSE [table |-> table, data |-> {}]

check_first_login_404(table, userId, storeRaises) ==
    LET data == SelectFirstLogin(table, userId)
    IN  IF storeRaises
        THEN HTTPException(500, "Failed to check first login status")
        ELSE IF data # {}
             THEN Return(JsonBool(CHOOSE v \in data : TRUE))
             ELSE HTTPException(404, "User not found")

check_first_login(table, userId, storeRaises) ==
    LET data == SelectFirstLogin(table, userId)
        body == IF storeRaises
                THEN Exception("store")
                ELSE IF data # {}
                     THEN Return(JsonBool(CHOOSE v \in data : TRUE))
                     ELSE Return(JsonBool(TRUE))
    IN  \* except Exception
        IF body.kind = "return"
        THEN body
        ELSE HTTPException(500, "Failed to check first login status")

update_first_login(table, userId, firstLogin, storeRaises) ==
    LET result == UpdateFirstLogin(table, userId, firstLogin)
        body == IF storeRaises
                THEN [table |-> table, out |-> Exception("store")]
                ELSE IF result.data # {}
                     THEN [table |-> result.table, out |-> Return("success")]
                     ELSE [table |-> result.table,
                           out |-> HTTPException(404, "User not found")]
    IN  \* except Exception: HTTPException is an Exception, so the 404 is caught too
        IF body.out.kind = "return"
        THEN body
        ELSE [table |-> body.table,
              out |-> HTTPException(500, "Failed to update first login status")]

\* the employees insert of the webhook; first_login takes its default, True
handle_clerk_webhook(table, event_type, clerk_id, storeRaises) ==
    IF event_type # "user.created"
    THEN [table |-> table, out |-> Return("received")]
    ELSE IF storeRaises \/ clerk_id \in DOMAIN table
         THEN [table |-> table,
               out |-> HTTPException(500, "Failed to create employee")]
         ELSE [table |-> [u \in DOMAIN table \cup {clerk_id} |->
                            IF u = clerk_id THEN TRUE ELSE table[u]],
               out |-> Return("received")]

LoginRecord(op, userId, firstLogin, pre, storeRaises, out) ==
    [op |-> op, userId |-> userId, firstLogin |-> firstLogin, pre |-> pre,
     storeRaises |-> storeRaises, out |-> out]

CheckFirstLoginRequest(userId) ==
    \E storeRaises \in BOOLEAN :
        /\ loginLast' = LoginRecord("check_first_login", userId, FALSE, employees,
                            storeRaises, check_first_login(employees, userId, storeRaises))
        /\ UNCHANGED <<employees, otpVars, proc>>

UpdateFirstLoginRequest(userId, firstLogin) ==
    \E storeRaises \in BOOLEAN :
        LET r == update_first_login(employees, userId, firstLogin, storeRaises)
        IN  /\ employees' = r.table
            /\ loginLast' = LoginRecord("update_first_login", userId, firstLogin,
                                        employees, storeRaises, r.out)
            /\ UNCHANGED <<otpVars, proc>>

ClerkWebhook(event_type, clerk_id) ==
    \E storeRaises \in BOOLEAN :
        LET r == handle_clerk_webhook(employees, event_type, clerk_id, storeRaises)
        IN  /\ employees' = r.table
            /\ loginLast' = LoginRecord("handle_clerk_webhook", clerk_id, FALSE,
                                        employees, storeRaises, r.out)
            /\ UNCHANGED <<otpVars, proc>>

\* ------------------------------------------------------- OTP lifecycle
\* datetime.isoformat() of a naive UTC datetime: no offset suffix
isoformat(t) == [minutes |-> t, suffix |-> ""]

\* s.replace('Z', '+00:00')
replaceZ(s) == [s EXCEPT !.suffix = IF @ = "Z" THEN "+00:00" ELSE @]

\* datetime.fromisoformat: aware exactly when the string carries an offset
fromisoformat(s) == [minutes |-> s.minutes, aware |-> s.suffix # ""]

utcnow(clock) == clock

Ids(rows) == 1..Len(rows)

\* .select('*').eq('email', e).eq('otp', o).eq('used', False): ids of the rows returned
LookupIgnoringUsed(rows, email, otp) ==
    {i \in Ids(rows) : rows[i].email = email /\ rows[i].otp = otp}

Lookup(rows, email, otp) ==
    {i \in Ids(rows) : /\ rows[i].email = email
                       /\ rows[i].otp = otp
                       /\ rows[i].used = FALSE}

\* expires_at < datetime.utcnow()
IsExpiredNever(expires_at, t) == FALSE

IsExpired(expires_at, t) == expires_at.minutes < t

\* .update({'used': True}).eq('id', id)
MarkUsedNothing(rows, id) == rows

MarkUsed(rows, id) == [rows EXCEPT ![id].used = TRUE]

\* .insert({'email', 'otp', 'expires_at', 'used': False})
InsertResetInvalidatingOlder(rows, email, otp, t) ==
    Append([i \in Ids(rows) |->
              IF rows[i].email = email THEN [rows[i] EXCEPT !.used = TRUE] ELSE rows[i]],
           [email |-> email, otp |-> otp,
            expires_at |-> isoformat(t + OTP_TTL_MINUTES), used |-> FALSE])

InsertReset(rows, email, otp, t) ==
    Append(rows, [email |-> email, otp |-> otp,
                  expires_at |-> isoformat(t + OTP_TTL_MINUTES), used |-> FALSE])

\* the Notifier; raises only from the SendGrid call, which needs the API key
send_otp_email(sent, email, otp, key, raises) ==
    [sent |-> Append(sent, <<email, otp>>), raised |-> key /\ raises]

send_otp_mail_first(rows, sent, email, otp, t, key, fail) ==
    IF fail = "insert"
    THEN [rows |-> rows, sent |-> sent, out |-> HTTPException(500, "Failed to send OTP")]
    ELSE LET mail == send_otp_email(sent, email, otp, key, fail = "send")
         IN  IF mail.raised
             THEN [rows |-> rows, sent |-> mail.sent,
                   out |-> HTTPException(500, "Failed to send OTP")]
             ELSE [rows |-> InsertReset(rows, email, otp, utcnow(t)), sent |-> mail.sent,
                   out |-> Return("OTP sent to email")]

send_otp(rows, sent, email, otp, t, key, fail) ==
    IF fail = "insert"
    THEN [rows |-> rows, sent |-> sent, out |-> HTTPException(500, "Failed to send OTP")]
    ELSE LET stored == InsertReset(rows, email, otp, utcnow(t))
             mail == send_otp_email(sent, email, otp, key, fail = "send")
         IN  IF mail.raised
             THEN [rows |-> stored, sent |-> mail.sent,
                   out |-> HTTPException(500, "Failed to send OTP")]
             ELSE [rows |-> stored, sent |-> mail.sent,
                   out |-> Return("OTP sent to email")]

\* except HTTPException: raise / except Exception: 500
verify_otp_except(out) ==
    IF out.kind = "Exception"
    THEN HTTPException(500, "Failed to verify OTP")
    ELSE out

\* lines 84-88 on reset_record = result.data[0]
CheckExpiry(reset_record, t) ==
    LET expires_at == fromisoformat(replaceZ(reset_record.expires_at))
    IN  IF expires_at.aware
        THEN Exception("TypeError")   \* aware < naive
        ELSE IF IsExpired(expires_at, utcnow(t))
             THEN HTTPException(400, "OTP expired")
             ELSE Return("unexpired")

verify_otp_marking_expired(rows, email, otp, first, t, fail) ==
    LET data == Lookup(rows, email, otp)
        body == IF fail = "select"
                THEN [rows |-> rows, out |-> Exception("store")]
                ELSE IF data = {}
                     THEN [rows |-> rows, out |-> HTTPException(400, "Invalid OTP")]
                     ELSE LET checked == CheckExpiry(rows[first], t)
                          IN  IF fail = "update"
                              THEN [rows |-> rows, out |-> Exception("store")]
                              ELSE IF checked.kind # "return"
                                   THEN [rows |-> MarkUsed(rows, first), out |-> checked]
                                   ELSE [rows |-> MarkUsed(rows, first),
                                         out |-> Return("OTP verified successfully")]
    IN  [rows |-> body.rows, out |-> verify_otp_except(body.out)]

\* first: the id of result.data[0], when the select returns rows
verify_otp(rows, email, otp, first, t, fail) ==
    LET data == Lookup(rows, email, otp)
        body == IF fail = "select"
                THEN [rows |-> rows, out |-> Exception("store")]
                ELSE IF data = {}
                     THEN [rows |-> rows, out |-> HTTPException(400, "Invalid OTP")]
                     ELSE LET checked == CheckExpiry(rows[first], t)
                          IN  IF checked.kind # "return"
                              THEN [rows |-> rows, out |-> checked]
                              ELSE IF fail = "update"
                                   THEN [rows |-> rows, out |-> Exception("store")]
                                   ELSE [rows |-> MarkUsed(rows, first),
                                         out |-> Return("OTP verified successfully")]
    IN  [rows |-> body.rows, out |-> verify_otp_except(body.out)]

OtpRecord(op, email, otp, t, pre, preSent, first, fail, issued, out) ==
    [op |-> op, email |-> email, otp |-> otp, t |-> t, pre |-> pre,
     preSent |-> preSent, first |-> first, fail |-> fail, issued |-> issued,
     out |-> out]

SendFailures == {"none", "insert"} \cup (IF sendgridKey THEN {"send"} ELSE {})

SendOTPRequest(email) ==
    /\ \E otp \in Otps, fail \in SendFailures :
        LET r == send_otp(password_resets, outbox, email, otp, now, sendgridKey, fail)
        IN  /\ password_resets' = r.rows
            /\ outbox' = r.sent
            /\ otpLast' = OtpRecord("send_otp", email, otp, now, password_resets,
                                    outbox, 0, fail,
                                    IF fail = "insert" THEN 0 ELSE Len(r.rows), r.out)
            /\ UNCHANGED <<now, sendgridKey, redeemed, loginVars, proc>>

VerifyOTPRequest(email, otp) ==
    \E fail \in {"none", "select", "update"} :
        LET data == Lookup(password_resets, email, otp)
        IN  \E first \in (IF data = {} \/ fail = "select" THEN {0} ELSE data) :
                LET r == verify_otp(password_resets, email, otp, first, now, fail)
                IN  /\ password_resets' = r.rows
                    /\ otpLast' = OtpRecord("verify_otp", email, otp, now,
                                            password_resets, outbox, first, fail,
                                            IF otpLast.op = "send_otp"
                                            THEN otpLast.issued ELSE 0,
                                            r.out)
                    /\ redeemed' = IF r.out.status = 200
                                   THEN Append(redeemed, first) ELSE redeemed
                    /\ UNCHANGED <<outbox, now, sendgridKey, loginVars, proc>>

Tick ==
    /\ now + TickMinutes <= MaxTime
    /\ now' = now + TickMinutes
    /\ UNCHANGED <<password_resets, outbox, sendgridKey, otpLast, redeemed,
                   loginVars, proc>>

\* ------------------------------------- verify-otp, one store call at a time
\* lines 77-84: the select; result.data[0] is kept as reset_record
VerifySelect(p, email, otp) ==
    /\ proc[p].pc = "idle"
    /\ \E storeRaises \in BOOLEAN :
        LET data == Lookup(password_resets, email, otp)
            req == [proc[p] EXCEPT !.email = email, !.otp = otp, !.t0 = now]
        IN  IF storeRaises
            THEN proc' = [proc EXCEPT ![p] = [req EXCEPT !.pc = "done",
                            !.out = verify_otp_except(Exception("store"))]]
            ELSE IF data = {}
                 THEN proc' = [proc EXCEPT ![p] = [req EXCEPT !.pc = "done",
                            !.out = verify_otp_except(HTTPException(400, "Invalid OTP"))]]
                 ELSE \E first \in data :
                        proc' = [proc EXCEPT ![p] = [req EXCEPT !.pc = "selected",
                                        !.first = first,
                                        !.reset_record = password_resets[first]]]
    /\ UNCHANGED <<otpVars, loginVars>>

\* lines 85-88: the expiry comparison on the record read by the select
VerifyCheckExpiry(p) ==
    /\ proc[p].pc = "selected"
    /\ LET checked == CheckExpiry(proc[p].reset_record, now)
       IN  IF checked.kind # "return"
           THEN proc' = [proc EXCEPT ![p].pc = "done", ![p].t1 = now,
                                     ![p].out = verify_otp_except(checked)]
           ELSE proc' = [proc EXCEPT ![p].pc = "checked", ![p].t1 = now]
    /\ UNCHANGED <<otpVars, loginVars>>

\* lines 91-95: the update by id, then the success response
VerifyMarkUsed(p) ==
    /\ proc[p].pc = "checked"
    /\ \E storeRaises \in BOOLEAN :
        IF storeRaises
        THEN /\ proc' = [proc EXCEPT ![p].pc = "done",
                            ![p].out = verify_otp_except(Exception("store"))]
             /\ UNCHANGED password_resets
        ELSE /\ password_resets' = MarkUsed(password_resets, proc[p].first)
             /\ proc' = [proc EXCEPT ![p].pc = "done",
                            ![p].out = Return("OTP verified successfully")]
    /\ UNCHANGED <<outbox, now, sendgridKey, otpLast, redeemed, loginVars>>

\* ------------------------------------------------------------ behaviours
NoOut == [kind |-> "none", status |-> 0, detail |-> ""]

NoRecord == [email |-> "", otp |-> "", expires_at |-> isoformat(0), used |-> FALSE]

IdleProc == [pc |-> "idle", email |-> "", otp |-> "", t0 |-> 0, t1 |-> 0,
             first |-> 0, reset_record |-> NoRecord, out |-> NoOut]

Init ==
    /\ employees = <<>>
    /\ loginLast = LoginRecord("none", "", FALSE, <<>>, FALSE, NoOut)
    /\ password_resets = <<>>
    /\ outbox = <<>>
    /\ now = 0
    /\ sendgridKey \in BOOLEAN
    /\ otpLast = OtpRecord("none", "", "", 0, <<>>, <<>>, 0, "none", 0, NoOut)
    /\ redeemed = <<>>
    /\ proc = [p \in Procs |-> IdleProc]

\* the OTP lifecycle, one request at a time
Next ==
    \/ Len(password_resets) < MaxRows /\ \E email \in Emails : SendOTPRequest(email)
    \/ \E email \in Emails, otp \in Otps : VerifyOTPRequest(email, otp)
    \/ Tick

Spec == Init /\ [][Next]_vars

\* the first-login flag service and the provisioning hook
NextFirstLogin ==
    \/ \E userId \in UserIds : CheckFirstLoginRequest(userId)
    \/ \E userId \in UserIds, firstLogin \in BOOLEAN :
           UpdateFirstLoginRequest(userId, firstLogin)
    \/ \E event_type \in {"user.created", "user.updated"}, clerk_id \in UserIds :
           ClerkWebhook(event_type, clerk_id)

SpecFirstLogin == Init /\ [][NextFirstLogin]_vars

\* verify-otp requests interleaved at their store calls
NextRace ==
    \/ Len(password_resets) < MaxRaceRows /\ \E email \in Emails : SendOTPRequest(email)
    \/ Tick
    \/ \E p \in Procs, email \in Emails, otp \in Otps : VerifySelect(p, email, otp)
    \/ \E p \in Procs : VerifyCheckExpiry(p)
    \/ \E p \in Procs : VerifyMarkUsed(p)

SpecRace == Init /\ [][NextRace]_vars

\* ---------------------------------------------------------------- claims
\* the unused rows of a table that carry (email, otp)
UnusedMatches(rows, email, otp) ==
    {i \in 1..Len(rows) : rows[i].email = email /\ rows[i].otp = otp /\ ~rows[i].used}

ExpiryOf(row) == row.expires_at.minutes

IssuedAt(row) == ExpiryOf(row) - OTP_TTL_MINUTES

\* C1: two concurrent Verify requests for the same issued, unused, unexpired
\* code end with exactly one success and one InvalidCode.  Row i is the only
\* row carrying the code, was in the store at both lookups, was found unused by
\* one of them and is unexpired to the end; no store call raised.
C1_ExactlyOneSuccess ==
    \A p \in Procs, q \in Procs, i \in Ids(password_resets) :
        ( /\ p # q
          /\ proc[p].pc = "done" /\ proc[q].pc = "done"
          /\ proc[p].email = proc[q].email /\ proc[p].otp = proc[q].otp
          /\ LookupIgnoringUsed(password_resets, proc[p].email, proc[p].otp) = {i}
          /\ proc[p].first = i
          /\ (proc[q].first = i \/ proc[q].t0 > IssuedAt(password_resets[i]))
          /\ now <= ExpiryOf(password_resets[i])
          /\ proc[p].out.status # 500 /\ proc[q].out.status # 500 )
        => \/ proc[p].out.status = 200 /\ proc[q].out.detail = "Invalid OTP"
           \/ proc[q].out.status = 200 /\ proc[p].out.detail = "Invalid OTP"

\* C2: Update-first-login for a userId with no employee row answers 404, and
\* 500 is answered only when the store call itself raised.
C2_UnknownUserIs404 ==
    loginLast.op = "update_first_login" =>
        /\ (~loginLast.storeRaises /\ loginLast.userId \notin DOMAIN loginLast.pre)
               => loginLast.out.status = 404
        /\ loginLast.out.status = 500 => loginLast.storeRaises

\* C3: a row a Verify has succeeded on never again satisfies a verification
\* lookup, and no row is the basis of two successful Verify requests.
C3_RedeemedNeverMatches ==
    \A k \in 1..Len(redeemed) :
        /\ redeemed[k] \in Ids(password_resets)
        /\ \A email \in Emails, otp \in Otps :
               redeemed[k] \notin UnusedMatches(password_resets, email, otp)
        /\ \A j \in 1..Len(redeemed) : j # k => redeemed[j] # redeemed[k]

\* C3 witness: the redeemed email and code were resubmitted before expires_at
\* and refused as InvalidCode.
C3_Witness ==
    /\ otpLast.op = "verify_otp" /\ otpLast.out.detail = "Invalid OTP"
    /\ \E k \in 1..Len(redeemed) :
           /\ password_resets[redeemed[k]].email = otpLast.email
           /\ password_resets[redeemed[k]].otp = otpLast.otp
           /\ otpLast.t < ExpiryOf(password_resets[redeemed[k]])

\* C4: Verify right after Issue, with the code Issue stored and before its
\* expires_at, succeeds whatever other rows the store holds (no store call of
\* the Verify raised).
C4_FreshCodeVerifies ==
    ( /\ otpLast.op = "verify_otp"
      /\ otpLast.issued # 0
      /\ otpLast.fail = "none"
      /\ otpLast.pre[otpLast.issued].email = otpLast.email
      /\ otpLast.pre[otpLast.issued].otp = otpLast.otp
      /\ otpLast.t < ExpiryOf(otpLast.pre[otpLast.issued]) )
    => otpLast.out.status = 200

\* C5 as stated: Verify succeeds only on a row that carried the submitted email
\* and otp, was unused at the lookup, and whose expires_at is later than the
\* UTC time the handler reads.
C5_SuccessOnlyIfStrictlyLater ==
    \A p \in Procs :
        (proc[p].pc = "done" /\ proc[p].out.status = 200) =>
            /\ proc[p].reset_record.email = proc[p].email
            /\ proc[p].reset_record.otp = proc[p].otp
            /\ proc[p].reset_record.used = FALSE
            /\ ExpiryOf(proc[p].reset_record) > proc[p].t1

\* C5 amended: Verify succeeds only on a row of the store that carried the
\* submitted email and otp, was unused at the lookup, and whose expires_at is
\* not earlier than the UTC time the handler reads for the comparison (which
\* is not earlier than the lookup).
C5_SuccessOnlyIfNotEarlier ==
    \A p \in Procs :
        (proc[p].pc = "done" /\ proc[p].out.status = 200) =>
            /\ proc[p].first \in Ids(password_resets)
            /\ password_resets[proc[p].first].email = proc[p].email
            /\ password_resets[proc[p].first].otp = proc[p].otp
            /\ proc[p].reset_record.email = proc[p].email
            /\ proc[p].reset_record.otp = proc[p].otp
            /\ proc[p].reset_record.used = FALSE
            /\ ExpiryOf(proc[p].reset_record) >= proc[p].t1
            /\ proc[p].t1 >= proc[p].t0

\* C5 witness: a Verify succeeded, the clock having advanced between its lookup
\* and its expiry comparison.
C5_Witness ==
    \E p \in Procs :
        /\ proc[p].pc = "done" /\ proc[p].out.status = 200
        /\ proc[p].t1 > proc[p].t0

NewRow(last) ==
    [email |-> last.email, otp |-> last.otp,
     expires_at |-> [minutes |-> last.t + OTP_TTL_MINUTES, suffix |-> ""],
     used |-> FALSE]

\* C8: Issue stores the row before it calls the Notifier: when the Notifier
\* raises the row stays and the answer is 500; when the insert raises the
\* Notifier is not called and nothing is stored; otherwise the row is stored,
\* the Notifier called once and the answer is success.
C8_RowStoredBeforeNotifier ==
    otpLast.op = "send_otp" =>
        /\ otpLast.fail = "send" =>
               /\ password_resets = Append(otpLast.pre, NewRow(otpLast))
               /\ outbox = Append(otpLast.preSent, <<otpLast.email, otpLast.otp>>)
               /\ otpLast.out.status = 500
        /\ otpLast.fail = "insert" =>
               /\ password_resets = otpLast.pre
               /\ outbox = otpLast.preSent
               /\ otpLast.out.status = 500
        /\ otpLast.fail = "none" =>
               /\ password_resets = Append(otpLast.pre, NewRow(otpLast))
               /\ outbox = Append(otpLast.preSent, <<otpLast.email, otpLast.otp>>)
               /\ otpLast.out.status = 200
        /\ Len(outbox) > Len(otpLast.preSent) =>
               Len(password_resets) > Len(otpLast.pre)

\* C8 witness: the Notifier raised and the row is in the store.
C8_Witness ==
    /\ otpLast.op = "send_otp" /\ otpLast.fail = "send"
    /\ otpLast.out.status = 500
    /\ Len(password_resets) = Len(otpLast.pre) + 1

\* every pick of a Verify(email, otp) at time t succeeds
Redeemable(rows, email, otp, t) ==
    /\ UnusedMatches(rows, email, otp) # {}
    /\ \A i \in UnusedMatches(rows, email, otp) : ExpiryOf(rows[i]) >= t

\* C9: Issue leaves every existing row as it was and adds exactly one row
\* (none when the insert raises); a code redeemable before the Issue is
\* redeemable after it.
C9_IssueOnlyAppends ==
    otpLast.op = "send_otp" =>
        /\ Len(password_resets) >= Len(otpLast.pre)
        /\ SubSeq(password_resets, 1, Len(otpLast.pre)) = otpLast.pre
        /\ Len(password_resets) =
               Len(otpLast.pre) + (IF otpLast.fail = "insert" THEN 0 ELSE 1)
        /\ \A email \in Emails, otp \in Otps :
               Redeemable(otpLast.pre, email, otp, otpLast.t)
                   => Redeemable(password_resets, email, otp, otpLast.t)

\* C9 witness: an Issue for an email that already had an unused, unexpired
\* code stored a second row, and the older code is still unused and unexpired.
C9_Witness ==
    /\ otpLast.op = "send_otp" /\ otpLast.fail # "insert"
    /\ Len(password_resets) = Len(otpLast.pre) + 1
    /\ \E i \in Ids(otpLast.pre) :
           /\ otpLast.pre[i].email = otpLast.email
           /\ ~password_resets[i].used
           /\ ExpiryOf(password_resets[i]) >= now
           /\ Redeemable(password_resets, otpLast.email, password_resets[i].otp, now)

\* C10: a request never deletes a row nor changes its email, otp or
\* expires_at; used only goes from false to true, and only on the row a
\* successful Verify picked; a Verify that does not succeed changes no row.
C10_RowLifecycle ==
    /\ Len(password_resets) >= Len(otpLast.pre)
    /\ \A i \in Ids(otpLast.pre) :
           /\ password_resets[i].email = otpLast.pre[i].email
           /\ password_resets[i].otp = otpLast.pre[i].otp
           /\ password_resets[i].expires_at = otpLast.pre[i].expires_at
           /\ otpLast.pre[i].used => password_resets[i].used
           /\ password_resets[i].used # otpLast.pre[i].used =>
                  /\ otpLast.op = "verify_otp"
                  /\ otpLast.out.status = 200
                  /\ otpLast.first = i
    /\ (otpLast.op = "verify_otp" /\ otpLast.out.status # 200) =>
           password_resets = otpLast.pre
    /\ (otpLast.op = "verify_otp" /\ otpLast.out.status = 200) =>
           /\ otpLast.pre[otpLast.first].used = FALSE
           /\ password_resets[otpLast.first].used = TRUE

\* C10 witness: a Verify answered Expired and its row is still unused.
C10_Witness ==
    /\ otpLast.op = "verify_otp" /\ otpLast.out.detail = "OTP expired"
    /\ password_resets = otpLast.pre
    /\ password_resets[otpLast.first].used = FALSE

====
